---- MODULE Spec2Model ----
(***************************************************************************)
(* Model of the per-connection conversation session of the Go backend      *)
(* (internal/conversation/state.go), together with the default dispatch    *)
(* of the generation and synthesis provider registries it calls            *)
(* (internal/llm, internal/tts).                                           *)
(*                                                                         *)
(* One session is modelled.  Every critical section of the code (the text  *)
(* between cm.mu.Lock() and cm.mu.Unlock()) is one action; the steps of a  *)
(* generation round (the goroutine running processUserText) are separate   *)
(* actions, so that frames, timer ticks and other rounds interleave with   *)
(* it exactly where the code releases the lock.                            *)
(*                                                                         *)
(* Time is counted in periods of the silence ticker.  The code reads the   *)
(* clock in one place, time.Since(cm.lastAudioTime) at state.go:218, and    *)
(* (Go's && evaluating left to right) only when currentState is Listening.  *)
(* sinceAudio is that reading, in ticker periods, while the session is      *)
(* Listening.  In the other states nothing reads the clock and sinceAudio   *)
(* is kept at 0; when a listening_start frame brings the session into       *)
(* Listening, any time may have passed since the last audio frame, so       *)
(* sinceAudio then takes any value.                                         *)
(*                                                                         *)
(* Every write to the connection is made under the session lock but one:   *)
(* sendTextResponse, called at state.go:314 after the lock is released.    *)
(* That call can run while another goroutine is inside WriteMessage on the *)
(* same connection, which is a data race on the connection's writer.  The  *)
(* model gives the call a beginning (RoundSendText) and an end             *)
(* (RoundTextSent); a write made in between races with it, and the outcome *)
(* of a race is either nothing or the process stopping (crashed).          *)
(*                                                                         *)
(* The connection is open until the peer or the network breaks it or the   *)
(* handler closes it (broken); the first write made after that returns an  *)
(* error, which the connection keeps (failed): every later write returns   *)
(* it at once.  A write that returns an error delivers nothing.            *)
(*                                                                         *)
(* The handler around the session (handlers.WebSocketHandler) is modelled  *)
(* from the registration of the session on: its read loop, and its         *)
(* deferred teardown when a read fails.  The connection table and its      *)
(* mutex are modelled with the two operations that use them from outside,  *)
(* GetActiveConnectionsCount and BroadcastTextMessage.                     *)
(***************************************************************************)
EXTENDS Integers, Sequences, FiniteSets, TLC

(***************************************************************************)
(* Program constants                                                       *)
(***************************************************************************)
\* state.go:63  minAudioFrames: 20
minAudioFrames == 20
\* state.go:62  silenceDuration: 1500 * time.Millisecond
silenceDuration == 1500
\* state.go:210 time.NewTicker(100 * time.Millisecond)
tickerPeriod == 100
\* state.go:334 chunkSize := 32 * 1024
chunkSize == 32 * 1024
\* state.go:301 if len(cm.chatHistory) > 21
historyCap == 21
\* state.go:303 cm.chatHistory[len(cm.chatHistory)-20:]
historyKeep == 20

StateIdle == "idle"
StateListening == "listening"
StateThinking == "thinking"
StateSpeaking == "speaking"

\* mock_provider.go:83 the runes of a chunk of the mock provider's stream
mockChunkSize == 10

\* state.go:54 the system prompt; state.go:242 the simulated recognition result;
\* state.go:275/281 the fixed apology; state.go:498-504 the canned responses, of
\* which generateRandomResponse returns any one (their texts decide nothing).
systemPrompt == "system-prompt"
recognizedText == "recognized"
apologyText == "apology"
randomResponses == {"canned"}

(***************************************************************************)
(* Bounds of the model                                                     *)
(***************************************************************************)
\* Spec: audio frames counted in totalAudioBytes (listening_start starts the
\* count afresh), and JSON text frames received over the life of the session
MaxFrames == 3
MaxCtl == 2
\* SilenceSpec: the audio frames of the utterance
MaxUtterance == 25
\* StopSpec: the audio frames of the utterance, and the listening_stop frames
MaxStopFrames == 20
MaxStops == 1
\* TypedSpec: the text frames with a text, and the audio frames
MaxTexts == 1
MaxEchoes == 2
\* BriefSpec: audio frames and JSON text frames, as in Spec
MaxBriefFrames == 2
MaxBriefCtl == 1
\* HistorySpec: the exchanges the session completed earlier, and the text
\* frames with a text it then receives
MaxPast == 10
MaxTurns == 2
\* RegistrySpec: the goroutines that dispatch through a registry at a time
MaxCallers == 2
\* StreamSpec: the events of one stream of the backend
MaxEvents == 4
\* generation rounds (processUserText goroutines) started
MaxRounds == 2
\* ticker periods counted since the last audio frame (the count saturates)
MaxSilentTicks == 16

\* inputs
FrameSizes == {320}
TypedTexts == {"typed"}
ReplyContents == {"reply"}
AudioSizes == {0, chunkSize, chunkSize + 1}
HeaderIDs == {""}
HelloIDs == {<<"", "">>, <<"dev", "cli">>}

Rounds == 1..MaxRounds
Callers == 1..MaxCallers
Registries == {"llm", "tts"}
ProviderNames == {"mock", "spare"}
\* the names a caller may pass (the empty string among them) and the providers
\* it may register: two whose Initialize returns nil and one whose Initialize
\* returns an error (deepseek_provider.go:309-311, dou_provider.go:152-154)
Names == ProviderNames \cup {""}
Providers == {"good", "other", "faulty"}
\* the contents of the deltas a backend streams, and the lengths in runes of
\* the responses of the mock provider
Fragments == {"a", "b"}
ResponseLens == {1, mockChunkSize, mockChunkSize + 1, 2 * mockChunkSize + 5}

VARIABLES
    started,          \* Start() has run: hello sent, ticker and read loop running
    currentState,     \* cm.currentState
    audioFrameCount,  \* cm.audioFrameCount
    totalAudioBytes,  \* cm.totalAudioBytes
    sinceAudio,       \* ticker periods since cm.lastAudioTime, while Listening
    deviceID,         \* cm.deviceID
    clientID,         \* cm.clientID
    chatHistory,      \* cm.chatHistory
    llmManager,       \* cm.llmManager (the generation registry)
    ttsManager,       \* cm.ttsManager (the synthesis registry)
    rounds,           \* the processUserText goroutines, by order of start
    wrote,            \* the frames the last step wrote to cm.conn, in order
    lastNotice,       \* the state named by the last listen notice written
    received,         \* the inbound frame the last step handled, "none" if it
                      \* was a step of the ticker or of a round
    crashed,          \* the process has stopped on concurrent writes
    ctlFrames,        \* JSON text frames handled
    conn,             \* the connection: "open", "broken" or "failed"
    readLoop,         \* the handler: "reading", "teardown" (in its deferred
                      \* function, before connectionsMutex) or "ended"
    registered,       \* activeConnections holds the connection
    connectionsMutex, \* "free", or the operation that holds it
    stopDetection,    \* cm.stopDetection is closed
    detectorExited,   \* runSilenceDetection has returned
    caller,           \* the caller of the connection table's operations
    counted,          \* what GetActiveConnectionsCount returned last
    registryLock,     \* the mutex of each registry: the callers that hold it
                      \* for reading, those of them inside the provider's
                      \* call, and whether a RegisterProvider waits for it
    outcome,          \* the last call made on the two registries by the code
                      \* that sets them up, with what each registry returned
    stream            \* the last StreamChat call made on a provider: what the
                      \* backend sent, the chunks handed to the callback in
                      \* order, and the error returned

vars == <<started, currentState, audioFrameCount, totalAudioBytes, sinceAudio,
          deviceID, clientID, chatHistory, llmManager, ttsManager, rounds,
          wrote, lastNotice, received, crashed, ctlFrames, conn, readLoop,
          registered, connectionsMutex, stopDetection, detectorExited, caller,
          counted, registryLock, outcome, stream>>

session == <<currentState, audioFrameCount, totalAudioBytes, sinceAudio>>
ids == <<deviceID, clientID>>
managers == <<llmManager, ttsManager>>
handler == <<readLoop, registered, stopDetection, detectorExited>>
core == <<started, session, ids, chatHistory, managers, rounds, ctlFrames>>
table == <<connectionsMutex, caller, counted, registryLock, outcome, stream>>

(***************************************************************************)
(* Provider registries (llm.LLMManager, tts.TTSManager)                    *)
(***************************************************************************)
\* make(map[string]Provider): no name keys a provider
NoProviders == [name \in {} |-> ""]

NoManager ==
    [present |-> FALSE, providers |-> NoProviders, initialized |-> FALSE,
     defaultProvider |-> ""]

NewManager ==
    [present |-> TRUE, providers |-> NoProviders, initialized |-> FALSE,
     defaultProvider |-> ""]

\* the map with providers[name] = provider stored
Stored(providers, name, provider) ==
    [n \in DOMAIN providers \cup {name} |->
        IF n = name THEN provider ELSE providers[n]]

RegisterProvider(m, name, provider) ==
    [m EXCEPT !.providers = Stored(@, name, provider),
              !.defaultProvider = IF @ = "" THEN name ELSE @]

\* Initialize with every provider's own Initialize succeeding
Initialize(m) == [m EXCEPT !.initialized = TRUE]

\* The outcome of default dispatch before the provider is called
Dispatch(m) ==
    IF ~m.initialized THEN "NotInitialized"
    ELSE IF m.defaultProvider \notin DOMAIN m.providers THEN "ProviderNotFound"
    ELSE "provider"

\* LLMManager.StreamChat / LLMManager.Chat: the registry's error, or whatever
\* the provider returns (success or a backend error)
ChatOutcomes(m) ==
    IF Dispatch(m) = "provider" THEN {"ok", "backend"} ELSE {Dispatch(m)}

\* TTSManager.SynthesizeSpeech: likewise
SynthesizeOutcomes(m) ==
    IF Dispatch(m) = "provider" THEN {"ok", "backend"} ELSE {Dispatch(m)}

\* provider.Initialize() returns an error
InitFails(provider) == provider = "faulty"

\* SetDefaultProvider that stores the name without looking it up
SetDefaultProviderUnchecked(m, name) ==
    [m |-> [m EXCEPT !.defaultProvider = name], err |-> "none"]

\* SetDefaultProvider that forgets the default when the name is unknown
SetDefaultProviderForgets(m, name) ==
    IF name \in DOMAIN m.providers
       THEN [m |-> [m EXCEPT !.defaultProvider = name], err |-> "none"]
       ELSE [m |-> [m EXCEPT !.defaultProvider = ""], err |-> "ProviderNotFound"]

\* part_002:79-89, tts/client.go:63-73: the registry afterwards and the error
SetDefaultProvider(m, name) ==
    IF name \in DOMAIN m.providers
       THEN [m |-> [m EXCEPT !.defaultProvider = name], err |-> "none"]
       ELSE [m |-> m, err |-> "ProviderNotFound"]

\* part_002:92-104, tts/client.go:76-89: the runs of Initialize. The range over
\* the map visits the names in any order: with a provider that fails, the
\* names called are the failing one met first and any of the others met
\* before it, and the method returns its error with initialized untouched
InitializeRuns(m) ==
    LET names == DOMAIN m.providers
        bad == {n \in names : InitFails(m.providers[n])}
    IN IF bad = {}
          THEN {[m |-> Initialize(m), err |-> "none", called |-> names, failed |-> ""]}
          ELSE {[m |-> m, err |-> "InitFailed", called |-> before \cup {f}, failed |-> f] :
                   f \in bad, before \in SUBSET (names \ bad)}

\* part_002:142-152: LLMManager.GetProvider
GetProviderLLM(m, name) ==
    IF name \in DOMAIN m.providers
       THEN [err |-> "none", provider |-> m.providers[name]]
       ELSE [err |-> "ProviderNotFound", provider |-> ""]

\* tts/client.go:92-107: TTSManager.GetProvider, the empty name standing for
\* the default
GetProviderTTS(m, name) ==
    LET n == IF name = "" THEN m.defaultProvider ELSE name
    IN IF n \in DOMAIN m.providers
          THEN [err |-> "none", provider |-> m.providers[n]]
          ELSE [err |-> "ProviderNotFound", provider |-> ""]

\* default dispatch that goes to the provider of a registry not initialized
DefaultCallSkipsReady(m) ==
    IF m.defaultProvider \in DOMAIN m.providers
       THEN [err |-> "none", provider |-> m.providers[m.defaultProvider]]
       ELSE [err |-> "ProviderNotFound", provider |-> ""]

\* part_002:108-138, tts/client.go:110-123: default dispatch, with the provider
\* whose method is invoked
DefaultCall(m) ==
    IF Dispatch(m) = "provider"
       THEN [err |-> "none", provider |-> m.providers[m.defaultProvider]]
       ELSE [err |-> Dispatch(m), provider |-> ""]

\* what a call on a registry returned: its error, the provider it returned or
\* invoked, the names whose provider's Initialize it called and the one that
\* failed; ready records that some Initialize of this registry has succeeded,
\* and inited the names whose stored provider's own Initialize has returned nil
\* (NewMockProvider and NewDeepSeekProvider return a provider that is not
\* initialized, and RegisterProvider stores it as it is)
NoResult ==
    [err |-> "none", provider |-> "", called |-> {}, failed |-> "", ready |-> FALSE,
     inited |-> {}]

\* no call made yet
NoOutcome == [op |-> "none", name |-> "", provider |-> "", llm |-> NoResult, tts |-> NoResult]

(***************************************************************************)
(* Streaming generation (DeepseekProvider.StreamChat, MockProvider's)      *)
(***************************************************************************)
\* the lines of the event stream that matter: a data line with a choice (its
\* delta's content, here at most one fragment, and its finish reason), the
\* data line [DONE], and a line that is skipped (empty, a comment, or data
\* with no choice)
Delta(content, finish) == [kind |-> "delta", content |-> content, finish |-> finish]
Done == [kind |-> "done", content |-> <<>>, finish |-> ""]
Skipped == [kind |-> "skip", content |-> <<>>, finish |-> ""]

\* ResponseChunk
Chunk(content, isFinal, finishReason) ==
    [content |-> content, isFinal |-> isFinal, finishReason |-> finishReason]

Bodies == {Skipped} \cup {Delta(<<c>>, "") : c \in Fragments}

SeqsUpTo(S, n) == UNION {[1..k -> S] : k \in 0..n}

\* the streams of a backend that follows the protocol: deltas, of which the
\* last may carry the finish reason (with or without a last fragment), then
\* [DONE]
Streams ==
    {body \o <<Done>> : body \in SeqsUpTo(Bodies, MaxEvents - 1)}
    \cup {body \o <<Delta(c, "stop"), Done>> :
             body \in SeqsUpTo(Bodies, MaxEvents - 2),
             c \in {<<>>} \cup {<<f>> : f \in Fragments}}

\* the loop of StreamChat from line i of the stream on, built being the
\* content collected and chunks the chunks handed to the callback so far;
\* the callback returns an error at its failAt-th call
RECURSIVE ReadStream(_, _, _, _, _)
\* the loop that stops reading once a delta carried the finish reason
RECURSIVE ReadStreamStopsAtFinish(_, _, _, _, _)
ReadStreamStopsAtFinish(events, i, built, chunks, failAt) ==
    IF i > Len(events) THEN [chunks |-> chunks, err |-> "none"]
    ELSE LET e == events[i]
             chunk == IF e.kind = "done"
                         THEN Chunk(built, TRUE, "stop")
                         ELSE Chunk(e.content, e.finish # "", e.finish)
             called == Append(chunks, chunk)
         IN IF e.kind = "skip"
               THEN ReadStreamStopsAtFinish(events, i + 1, built, chunks, failAt)
            ELSE IF Len(called) = failAt
               THEN [chunks |-> called, err |-> "callback"]
            ELSE IF e.kind = "done" \/ e.finish # ""
               THEN [chunks |-> called, err |-> "none"]
            ELSE ReadStreamStopsAtFinish(events, i + 1, built \o e.content, called, failAt)

\* deepseek_provider.go:232-305
ReadStream(events, i, built, chunks, failAt) ==
    IF i > Len(events) THEN [chunks |-> chunks, err |-> "none"]
    ELSE LET e == events[i]
             chunk == IF e.kind = "done"
                         THEN Chunk(built, TRUE, "stop")
                         ELSE Chunk(e.content, e.finish # "", e.finish)
             called == Append(chunks, chunk)
         IN IF e.kind = "skip"
               THEN ReadStream(events, i + 1, built, chunks, failAt)
            ELSE IF Len(called) = failAt
               THEN [chunks |-> called, err |-> "callback"]
            ELSE IF e.kind = "done"
               THEN [chunks |-> called, err |-> "none"]
            ELSE ReadStream(events, i + 1, built \o e.content, called, failAt)

\* mock_provider.go:159-176: splitIntoChunks, a chunk given by its first rune
\* (from 0) and the one after its last
splitIntoChunks(len, size) ==
    [k \in 1..((len + size - 1) \div size) |->
        <<(k - 1) * size, IF k * size > len THEN len ELSE k * size>>]

\* mock_provider.go:86-105: the loop over the chunks from the i-th on
RECURSIVE SendChunks(_, _, _, _)
SendChunks(parts, i, chunks, failAt) ==
    IF i > Len(parts) THEN [chunks |-> chunks, err |-> "none"]
    ELSE LET isFinal == i = Len(parts)
             called == Append(chunks,
                          Chunk(parts[i], isFinal, IF isFinal THEN "stop" ELSE ""))
         IN IF Len(called) = failAt
               THEN [chunks |-> called, err |-> "callback"]
               ELSE SendChunks(parts, i + 1, called, failAt)

\* no StreamChat call made yet
NoStream == [provider |-> "none", events |-> <<>>, failAt |-> 0, chunks |-> <<>>, err |-> "none"]

\* sync.RWMutex of a registry, nobody holding or waiting
FreeLock == [readers |-> {}, calling |-> {}, writer |-> "idle"]

ManagerConfigs ==
    { NoManager,
      RegisterProvider(NewManager, "mock", "good"),
      Initialize(NewManager),
      Initialize(RegisterProvider(NewManager, "mock", "good")) }

(***************************************************************************)
(* Frames written to the connection                                        *)
(***************************************************************************)
Frame(type, arg, by) == [type |-> type, arg |-> arg, lo |-> 0, hi |-> 0, by |-> by]
Notice(state, by) == Frame("listen", state, by)
AudioChunk(lo, hi, by) == [type |-> "audio", arg |-> "", lo |-> lo, hi |-> hi, by |-> by]

\* the step hands the frames fs to WriteMessage, in this order, and nothing
\* else; racing says that another goroutine is inside WriteMessage meanwhile.
\* On a connection that is not open every one of them returns an error.
ConnWrite(fs, racing) ==
    /\ ~crashed
    /\ crashed' \in IF racing /\ conn # "failed" THEN BOOLEAN ELSE {FALSE}
    /\ wrote' = IF conn = "open" THEN fs ELSE <<>>
    /\ conn' = IF fs # <<>> /\ conn # "open" THEN "failed" ELSE conn
    /\ LET ns == SelectSeq(wrote', LAMBDA f : f.type = "listen")
       IN lastNotice' = IF ns = <<>> THEN lastNotice ELSE ns[Len(ns)].arg

(***************************************************************************)
(* Generation rounds                                                       *)
(***************************************************************************)
NoRound ==
    [pc |-> "none", text |-> "", llmResponse |-> "", llmErr |-> "none",
     ttsErr |-> "none", audioLen |-> 0, i |-> 0, sendErr |-> FALSE,
     delayed |-> FALSE]

NumRounds == Cardinality({r \in Rounds : rounds[r].pc # "none"})
NextRound == NumRounds + 1

\* go cm.processUserText(text)
\* the rounds inside the unlocked WriteMessage of sendTextResponse
Texting == {r \in Rounds : rounds[r].pc = "texting"}

\* some goroutine is inside a WriteMessage it entered without the session
\* lock: a round's sendTextResponse, or BroadcastTextMessage
InWrite == Texting # {} \/ caller.broadcast = "writing"

\* a step that holds the session lock writes the frames fs
Writes(fs) == ConnWrite(fs, fs # <<>> /\ InWrite)

GoProcessUserText(text) ==
    /\ NumRounds < MaxRounds
    /\ rounds' = [rounds EXCEPT ![NextRound] = [NoRound EXCEPT !.pc = "begin", !.text = text]]

Min(a, b) == IF a < b THEN a ELSE b

\* the compaction that keeps the most recent entries only, the system message
\* not among them
CompactDropsSystem(h) ==
    IF Len(h) > historyCap
       THEN SubSeq(h, Len(h) - historyKeep, Len(h))
       ELSE h

\* the compaction that keeps one entry more than the 20 of line 303
CompactKeepsOneMore(h) ==
    IF Len(h) > historyCap
       THEN SubSeq(h, 1, 1) \o SubSeq(h, Len(h) - historyKeep, Len(h))
       ELSE h

\* the compaction that keeps the 20 of line 303 with the oldest of them moved
\* behind the newest
CompactRotates(h) ==
    IF Len(h) > historyCap
       THEN SubSeq(h, 1, 1) \o SubSeq(h, Len(h) - historyKeep + 2, Len(h))
                \o SubSeq(h, Len(h) - historyKeep + 1, Len(h) - historyKeep + 1)
       ELSE h

\* state.go:301-304
Compact(h) ==
    IF Len(h) > historyCap
       THEN SubSeq(h, 1, 1) \o SubSeq(h, Len(h) - historyKeep + 1, Len(h))
       ELSE h

\* the history after k typed exchanges made one after the other, each of them
\* answered by the backend; the first of them is marked to tell it apart
RECURSIVE PastHistory(_)
PastHistory(k) ==
    IF k = 0
       THEN <<[role |-> "system", content |-> systemPrompt]>>
       ELSE Compact(PastHistory(k - 1)
                \o <<[role |-> "user", content |-> IF k = 1 THEN "oldest" ELSE "earlier"],
                     [role |-> "assistant", content |-> "reply"]>>)

Init ==
    /\ started = FALSE
    /\ currentState = StateIdle
    /\ audioFrameCount = 0
    /\ totalAudioBytes = 0
    /\ sinceAudio = 0
    /\ \E id \in HeaderIDs : deviceID = id /\ clientID = id
    /\ chatHistory = <<[role |-> "system", content |-> systemPrompt]>>
    /\ llmManager \in ManagerConfigs
    /\ ttsManager \in ManagerConfigs
    /\ rounds = [r \in Rounds |-> NoRound]
    /\ wrote = <<>>
    /\ lastNotice = "none"
    /\ received = "none"
    /\ crashed = FALSE
    /\ ctlFrames = 0
    /\ conn = "open"
    /\ readLoop = "reading"
    /\ registered = TRUE
    /\ connectionsMutex = "free"
    /\ stopDetection = FALSE
    /\ detectorExited = FALSE
    /\ caller = [count |-> "idle", broadcast |-> "idle"]
    /\ counted = -1
    /\ registryLock = [reg \in Registries |-> FreeLock]
    /\ outcome = NoOutcome
    /\ stream = NoStream

\* the two registries as NewLLMManager and NewTTSManager return them
InitNew ==
    /\ started = FALSE
    /\ currentState = StateIdle
    /\ audioFrameCount = 0
    /\ totalAudioBytes = 0
    /\ sinceAudio = 0
    /\ \E id \in HeaderIDs : deviceID = id /\ clientID = id
    /\ chatHistory = <<[role |-> "system", content |-> systemPrompt]>>
    /\ llmManager = NewManager
    /\ ttsManager = NewManager
    /\ rounds = [r \in Rounds |-> NoRound]
    /\ wrote = <<>>
    /\ lastNotice = "none"
    /\ received = "none"
    /\ crashed = FALSE
    /\ ctlFrames = 0
    /\ conn = "open"
    /\ readLoop = "reading"
    /\ registered = TRUE
    /\ connectionsMutex = "free"
    /\ stopDetection = FALSE
    /\ detectorExited = FALSE
    /\ caller = [count |-> "idle", broadcast |-> "idle"]
    /\ counted = -1
    /\ registryLock = [reg \in Registries |-> FreeLock]
    /\ outcome = NoOutcome
    /\ stream = NoStream

\* the session at rest after MaxPast exchanges or one fewer: every round has
\* returned, the last of them left the session Idle with the idle notice
\* written
InitLater ==
    \E k \in (MaxPast - 1)..MaxPast :
       /\ started = TRUE
       /\ currentState = StateIdle
       /\ audioFrameCount = 0
       /\ totalAudioBytes = 0
       /\ sinceAudio = 0
       /\ \E id \in HeaderIDs : deviceID = id /\ clientID = id
       /\ chatHistory = PastHistory(k)
       /\ llmManager \in ManagerConfigs
       /\ ttsManager \in ManagerConfigs
       /\ rounds = [r \in Rounds |-> NoRound]
       /\ wrote = <<>>
       /\ lastNotice = StateIdle
       /\ received = "none"
       /\ crashed = FALSE
       /\ ctlFrames = 0
       /\ conn = "open"
       /\ readLoop = "reading"
       /\ registered = TRUE
       /\ connectionsMutex = "free"
       /\ stopDetection = FALSE
       /\ detectorExited = FALSE
       /\ caller = [count |-> "idle", broadcast |-> "idle"]
       /\ counted = -1
       /\ registryLock = [reg \in Registries |-> FreeLock]
       /\ outcome = NoOutcome
       /\ stream = NoStream

(***************************************************************************)
(* Start, the read loop's handlers and the silence ticker                  *)
(***************************************************************************)
Start ==
    /\ ~started
    /\ started' = TRUE
    /\ Writes(<<Frame("hello", "ok", 0)>>)
    /\ received' = "none"
    /\ UNCHANGED <<session, ids, chatHistory, managers, rounds, ctlFrames,
                   handler, table>>

\* HandleBinaryMessage without the test of line 105: every audio frame is
\* announced, whatever the state
HandleBinaryMessageAnnouncesAll(n) ==
    /\ started
    /\ readLoop = "reading"
    /\ audioFrameCount' = audioFrameCount + 1
    /\ totalAudioBytes' = totalAudioBytes + n
    /\ sinceAudio' = 0
    /\ received' = "audio"
    /\ currentState' = IF currentState = StateIdle THEN StateListening ELSE currentState
    /\ Writes(<<Frame("listening_start", "", 0), AudioChunk(0, n, 0)>>)
    /\ UNCHANGED <<started, ids, chatHistory, managers, rounds, ctlFrames,
                   handler, table>>

\* HandleBinaryMessage that takes every audio frame for the start of an
\* utterance: whatever the state, the session is Listening after it
HandleBinaryMessageListensAlways(n) ==
    /\ started
    /\ readLoop = "reading"
    /\ audioFrameCount' = audioFrameCount + 1
    /\ totalAudioBytes' = totalAudioBytes + n
    /\ sinceAudio' = 0
    /\ received' = "audio"
    /\ currentState' = StateListening
    /\ IF currentState = StateIdle
          THEN Writes(<<Frame("listening_start", "", 0), AudioChunk(0, n, 0)>>)
          ELSE Writes(<<AudioChunk(0, n, 0)>>)
    /\ UNCHANGED <<started, ids, chatHistory, managers, rounds, ctlFrames,
                   handler, table>>

HandleBinaryMessage(n) ==
    /\ started
    /\ readLoop = "reading"
    /\ audioFrameCount' = audioFrameCount + 1
    /\ totalAudioBytes' = totalAudioBytes + n
    /\ sinceAudio' = 0
    /\ received' = "audio"
    /\ IF currentState = StateIdle
          THEN /\ currentState' = StateListening
               /\ Writes(<<Frame("listening_start", "", 0), AudioChunk(0, n, 0)>>)
          ELSE /\ UNCHANGED currentState
               /\ Writes(<<AudioChunk(0, n, 0)>>)
    /\ UNCHANGED <<started, ids, chatHistory, managers, rounds, ctlFrames,
                   handler, table>>

\* the text frame handled by a read loop that runs each round itself, without
\* the go of lines 185 and 244: no frame is handled before the round returned
TextFrameWaits(type) ==
    /\ started
    /\ readLoop = "reading"
    /\ \A r \in DOMAIN rounds : rounds[r].pc \in {"none", "done"}
    /\ received' = type
    /\ ctlFrames' = ctlFrames + 1
    /\ UNCHANGED <<started, managers, chatHistory, handler, table>>

\* what every JSON text frame with a type does besides its case of the switch
TextFrame(type) ==
    /\ started
    /\ readLoop = "reading"
    /\ received' = type
    /\ ctlFrames' = ctlFrames + 1
    /\ UNCHANGED <<started, managers, chatHistory, handler, table>>

processClientHello(dev, cli) ==
    /\ deviceID' = IF deviceID = "" THEN dev ELSE deviceID
    /\ clientID' = IF clientID = "" THEN cli ELSE clientID

HandleHello ==
    /\ TextFrame("hello")
    /\ \E m \in HelloIDs : processClientHello(m[1], m[2])
    /\ Writes(<<>>)
    /\ UNCHANGED <<session, rounds>>

HandleListeningStart ==
    /\ TextFrame("listening_start")
    /\ audioFrameCount' = 0
    /\ totalAudioBytes' = 0
    /\ currentState' = StateListening
    /\ IF currentState = StateListening
          THEN UNCHANGED sinceAudio
          ELSE sinceAudio' \in 0..MaxSilentTicks
    /\ Writes(<<>>)
    /\ UNCHANGED <<ids, rounds>>

processUserSpeech ==
    /\ Writes(<<Notice(StateThinking, NextRound)>>)
    /\ currentState' = StateThinking
    /\ sinceAudio' = 0
    /\ GoProcessUserText(recognizedText)

\* the listening_stop case without the test of line 167: the utterance is
\* processed however short it is
HandleListeningStopUnchecked ==
    /\ TextFrame("listening_stop")
    /\ processUserSpeech
    /\ UNCHANGED <<audioFrameCount, totalAudioBytes, ids>>

\* the listening_stop case with > for the >= of line 167
HandleListeningStopStrict ==
    /\ TextFrame("listening_stop")
    /\ IF audioFrameCount > minAudioFrames
          THEN processUserSpeech
          ELSE /\ currentState' = StateIdle
               /\ sinceAudio' = 0
               /\ Writes(<<>>)
               /\ UNCHANGED rounds
    /\ UNCHANGED <<audioFrameCount, totalAudioBytes, ids>>

HandleListeningStop ==
    /\ TextFrame("listening_stop")
    /\ IF audioFrameCount >= minAudioFrames
          THEN processUserSpeech
          ELSE /\ currentState' = StateIdle
               /\ sinceAudio' = 0
               /\ Writes(<<>>)
               /\ UNCHANGED rounds
    /\ UNCHANGED <<audioFrameCount, totalAudioBytes, ids>>

HandleText(text) ==
    /\ TextFrame("text")
    /\ IF text # ""
          THEN /\ currentState' = StateThinking
               /\ sinceAudio' = 0
               /\ Writes(<<Notice(StateThinking, NextRound)>>)
               /\ GoProcessUserText(text)
          ELSE /\ Writes(<<>>)
               /\ UNCHANGED <<currentState, sinceAudio, rounds>>
    /\ UNCHANGED <<audioFrameCount, totalAudioBytes, ids>>

\* a frame that is not JSON, has no type, or has a type the switch ignores
HandleIgnored ==
    /\ TextFrame("ignored")
    /\ Writes(<<>>)
    /\ UNCHANGED <<session, ids, rounds>>

\* the ticker's case with >= for the > of line 218
TickEager ==
    /\ started
    /\ ~detectorExited
    /\ received' = "none"
    /\ LET elapsed == Min(sinceAudio + 1, MaxSilentTicks)
       IN IF /\ currentState = StateListening
             /\ elapsed * tickerPeriod >= silenceDuration
             /\ audioFrameCount >= minAudioFrames
             THEN processUserSpeech
             ELSE /\ sinceAudio' = IF currentState = StateListening THEN elapsed ELSE 0
                  /\ Writes(<<>>)
                  /\ UNCHANGED <<currentState, rounds>>
    /\ UNCHANGED <<started, audioFrameCount, totalAudioBytes, ids, chatHistory,
                   managers, ctlFrames, handler, table>>

\* one period of the ticker of runSilenceDetection ends and its case runs
Tick ==
    /\ started
    /\ ~detectorExited
    /\ received' = "none"
    /\ LET elapsed == Min(sinceAudio + 1, MaxSilentTicks)
       IN IF /\ currentState = StateListening
             /\ elapsed * tickerPeriod > silenceDuration
             /\ audioFrameCount >= minAudioFrames
             THEN processUserSpeech
             ELSE /\ sinceAudio' = IF currentState = StateListening THEN elapsed ELSE 0
                  /\ Writes(<<>>)
                  /\ UNCHANGED <<currentState, rounds>>
    /\ UNCHANGED <<started, audioFrameCount, totalAudioBytes, ids, chatHistory,
                   managers, ctlFrames, handler, table>>

(***************************************************************************)
(* processUserText, one action per lock hold or blocking call.  A local    *)
(* of the goroutine (text, llmResponse, audioData, i) is put back to its   *)
(* zero value at the step after which the code reads it no more.           *)
(***************************************************************************)
RoundStep ==
    /\ received' = "none"
    /\ UNCHANGED <<started, ids, managers, ctlFrames, totalAudioBytes,
                   handler, table>>

\* lines 249-258
RoundBegin(r) ==
    /\ rounds[r].pc = "begin"
    /\ chatHistory' = Append(chatHistory, [role |-> "user", content |-> rounds[r].text])
    /\ rounds' = [rounds EXCEPT ![r].pc = "stream", ![r].text = ""]
    /\ Writes(<<>>)
    /\ RoundStep
    /\ UNCHANGED <<currentState, sinceAudio, audioFrameCount>>

\* the streaming call whose error ends the goroutine (a return at line 275)
RoundStreamChatAborts(r) ==
    /\ rounds[r].pc = "stream"
    /\ IF llmManager.present
          THEN \E out \in ChatOutcomes(llmManager) :
                  rounds' = IF out = "ok"
                      THEN [rounds EXCEPT ![r].pc = "chat"]
                      ELSE [rounds EXCEPT ![r].pc = "done", ![r].llmErr = out]
          ELSE \E resp \in randomResponses :
                  rounds' = [rounds EXCEPT ![r].pc = "append", ![r].llmResponse = resp]
    /\ Writes(<<>>)
    /\ RoundStep
    /\ UNCHANGED <<currentState, sinceAudio, audioFrameCount, chatHistory>>

\* lines 263-276 and 286-289
RoundStreamChat(r) ==
    /\ rounds[r].pc = "stream"
    /\ IF llmManager.present
          THEN \E out \in ChatOutcomes(llmManager) :
                  rounds' = IF out = "ok"
                      THEN [rounds EXCEPT ![r].pc = "chat"]
                      ELSE [rounds EXCEPT ![r].pc = "append",
                                          ![r].llmErr = out,
                                          ![r].llmResponse = apologyText]
          ELSE \E resp \in randomResponses :
                  rounds' = [rounds EXCEPT ![r].pc = "append", ![r].llmResponse = resp]
    /\ Writes(<<>>)
    /\ RoundStep
    /\ UNCHANGED <<currentState, sinceAudio, audioFrameCount, chatHistory>>

\* lines 277-285
RoundChat(r) ==
    /\ rounds[r].pc = "chat"
    /\ \E out \in ChatOutcomes(llmManager) :
          IF out = "ok"
             THEN \E c \in ReplyContents :
                     rounds' = [rounds EXCEPT ![r].pc = "append", ![r].llmResponse = c]
             ELSE rounds' = [rounds EXCEPT ![r].pc = "append",
                                           ![r].llmErr = out,
                                           ![r].llmResponse = apologyText]
    /\ Writes(<<>>)
    /\ RoundStep
    /\ UNCHANGED <<currentState, sinceAudio, audioFrameCount, chatHistory>>

\* lines 291-305
RoundAppend(r) ==
    /\ rounds[r].pc = "append"
    /\ chatHistory' = Compact(Append(chatHistory,
                          [role |-> "assistant", content |-> rounds[r].llmResponse]))
    /\ rounds' = [rounds EXCEPT ![r].pc = "speaking"]
    /\ Writes(<<>>)
    /\ RoundStep
    /\ UNCHANGED <<currentState, sinceAudio, audioFrameCount>>

\* lines 307-311
RoundSpeaking(r) ==
    /\ rounds[r].pc = "speaking"
    /\ Writes(<<Notice(StateSpeaking, r)>>)
    /\ currentState' = StateSpeaking
    /\ sinceAudio' = 0
    /\ rounds' = [rounds EXCEPT ![r].pc = "text"]
    /\ RoundStep
    /\ UNCHANGED <<audioFrameCount, chatHistory>>

\* line 314: sendTextResponse enters WriteMessage, the session lock not held
RoundSendText(r) ==
    /\ rounds[r].pc = "text"
    /\ ConnWrite(<<>>, InWrite)
    /\ rounds' = [rounds EXCEPT ![r].pc = "texting"]
    /\ RoundStep
    /\ UNCHANGED <<currentState, sinceAudio, audioFrameCount, chatHistory>>

\* line 314: WriteMessage returns, the text response written
RoundTextSent(r) ==
    /\ rounds[r].pc = "texting"
    /\ ConnWrite(<<Frame("text", rounds[r].llmResponse, r)>>, FALSE)
    /\ rounds' = [rounds EXCEPT ![r].pc = "tts"]
    /\ RoundStep
    /\ UNCHANGED <<currentState, sinceAudio, audioFrameCount, chatHistory>>

\* the synthesis call whose error ends the goroutine (a return at line 327)
RoundSynthesizeAborts(r) ==
    /\ rounds[r].pc = "tts"
    /\ IF ttsManager.present
          THEN \E out \in SynthesizeOutcomes(ttsManager) :
                  IF out = "ok"
                     THEN \E n \in AudioSizes :
                             rounds' = [rounds EXCEPT ![r].audioLen = n,
                                 ![r].llmResponse = "",
                                 ![r].pc = IF n > 0 THEN "chunk" ELSE "delay"]
                     ELSE rounds' = [rounds EXCEPT ![r].ttsErr = out,
                                 ![r].llmResponse = "", ![r].pc = "done"]
          ELSE rounds' = [rounds EXCEPT ![r].llmResponse = "", ![r].pc = "delay"]
    /\ Writes(<<>>)
    /\ RoundStep
    /\ UNCHANGED <<currentState, sinceAudio, audioFrameCount, chatHistory>>

\* lines 316-332: the synthesis call, then the choice between the chunk loop
\* and the simulated delay
RoundSynthesize(r) ==
    /\ rounds[r].pc = "tts"
    /\ IF ttsManager.present
          THEN \E out \in SynthesizeOutcomes(ttsManager) :
                  IF out = "ok"
                     THEN \E n \in AudioSizes :
                             rounds' = [rounds EXCEPT ![r].audioLen = n,
                                 ![r].llmResponse = "",
                                 ![r].pc = IF n > 0 THEN "chunk" ELSE "delay"]
                     ELSE rounds' = [rounds EXCEPT ![r].ttsErr = out,
                                 ![r].llmResponse = "", ![r].pc = "delay"]
          ELSE rounds' = [rounds EXCEPT ![r].llmResponse = "", ![r].pc = "delay"]
    /\ Writes(<<>>)
    /\ RoundStep
    /\ UNCHANGED <<currentState, sinceAudio, audioFrameCount, chatHistory>>

\* the chunk loop without the clamp of lines 338-340
RoundSendChunkUnclamped(r) ==
    /\ rounds[r].pc = "chunk"
    /\ LET lo == rounds[r].i
           hi == lo + chunkSize
       IN /\ Writes(<<AudioChunk(lo, hi, r)>>)
          /\ rounds' = IF conn # "open"
                 THEN [rounds EXCEPT ![r].i = 0, ![r].audioLen = 0,
                                     ![r].sendErr = TRUE, ![r].pc = "idle"]
                 ELSE IF lo + chunkSize < rounds[r].audioLen
                 THEN [rounds EXCEPT ![r].i = lo + chunkSize]
                 ELSE [rounds EXCEPT ![r].i = 0, ![r].audioLen = 0, ![r].pc = "idle"]
    /\ RoundStep
    /\ UNCHANGED <<currentState, sinceAudio, audioFrameCount, chatHistory>>

\* the chunk loop that goes on with the next chunk after a write error
RoundSendChunkIgnoresError(r) ==
    /\ rounds[r].pc = "chunk"
    /\ LET lo == rounds[r].i
           hi == Min(lo + chunkSize, rounds[r].audioLen)
       IN /\ Writes(<<AudioChunk(lo, hi, r)>>)
          /\ rounds' = IF lo + chunkSize < rounds[r].audioLen
                 THEN [rounds EXCEPT ![r].i = lo + chunkSize]
                 ELSE [rounds EXCEPT ![r].i = 0, ![r].audioLen = 0, ![r].pc = "idle"]
    /\ RoundStep
    /\ UNCHANGED <<currentState, sinceAudio, audioFrameCount, chatHistory>>

\* lines 336-353: one iteration of the chunk loop; a write error ends the loop
RoundSendChunk(r) ==
    /\ rounds[r].pc = "chunk"
    /\ LET lo == rounds[r].i
           hi == Min(lo + chunkSize, rounds[r].audioLen)
       IN /\ Writes(<<AudioChunk(lo, hi, r)>>)
          /\ rounds' = IF conn # "open"
                 THEN [rounds EXCEPT ![r].i = 0, ![r].audioLen = 0,
                                     ![r].sendErr = TRUE, ![r].pc = "idle"]
                 ELSE IF lo + chunkSize < rounds[r].audioLen
                 THEN [rounds EXCEPT ![r].i = lo + chunkSize]
                 ELSE [rounds EXCEPT ![r].i = 0, ![r].audioLen = 0, ![r].pc = "idle"]
    /\ RoundStep
    /\ UNCHANGED <<currentState, sinceAudio, audioFrameCount, chatHistory>>

\* the simulated delay followed by the reset of line 363, made before the
\* lock of line 360 is taken
RoundDelayResetsCount(r) ==
    /\ rounds[r].pc = "delay"
    /\ rounds' = [rounds EXCEPT ![r].delayed = TRUE, ![r].pc = "idle"]
    /\ audioFrameCount' = 0
    /\ Writes(<<>>)
    /\ RoundStep
    /\ UNCHANGED <<currentState, sinceAudio, chatHistory>>

\* lines 354-357
RoundDelay(r) ==
    /\ rounds[r].pc = "delay"
    /\ rounds' = [rounds EXCEPT ![r].delayed = TRUE, ![r].pc = "idle"]
    /\ Writes(<<>>)
    /\ RoundStep
    /\ UNCHANGED <<currentState, sinceAudio, audioFrameCount, chatHistory>>

\* lines 359-364
RoundIdle(r) ==
    /\ rounds[r].pc = "idle"
    /\ Writes(<<Notice(StateIdle, r)>>)
    /\ currentState' = StateIdle
    /\ sinceAudio' = 0
    /\ audioFrameCount' = 0
    /\ rounds' = [rounds EXCEPT ![r] = [NoRound EXCEPT !.pc = "done"]]
    /\ RoundStep
    /\ UNCHANGED chatHistory

processUserText(r) ==
    \/ RoundBegin(r)
    \/ RoundStreamChat(r)
    \/ RoundChat(r)
    \/ RoundAppend(r)
    \/ RoundSpeaking(r)
    \/ RoundSendText(r)
    \/ RoundTextSent(r)
    \/ RoundSynthesize(r)
    \/ RoundSendChunk(r)
    \/ RoundDelay(r)
    \/ RoundIdle(r)

(***************************************************************************)
(* The connection, the handler's teardown and the connection table         *)
(***************************************************************************)
\* a step that writes nothing and handles no frame
Quiet ==
    /\ ConnWrite(<<>>, FALSE)
    /\ received' = "none"

\* the peer goes away or the network fails: writes return errors from now on
ConnBreaks ==
    /\ started
    /\ conn = "open"
    /\ ~crashed
    /\ conn' = "broken"
    /\ wrote' = <<>>
    /\ received' = "none"
    /\ UNCHANGED <<core, lastNotice, crashed, handler, table>>

\* config.go:121-129 and 75-76: ReadMessage returns an error, the loop
\* breaks and the deferred function closes the connection
ReadFails ==
    /\ started
    /\ readLoop = "reading"
    /\ ~crashed
    /\ readLoop' = "teardown"
    /\ conn' = IF conn = "open" THEN "broken" ELSE conn
    /\ wrote' = <<>>
    /\ received' = "none"
    /\ UNCHANGED <<core, lastNotice, crashed, registered, stopDetection,
                   detectorExited, table>>

\* the deferred function with no cm.Stop(): the entry is deleted and the
\* session's ticker is left running
UnregisterLeavesTicker ==
    /\ readLoop = "teardown"
    /\ connectionsMutex = "free"
    /\ readLoop' = "ended"
    /\ registered' = FALSE
    /\ Quiet
    /\ UNCHANGED <<core, stopDetection, detectorExited, table>>

\* config.go:79-84, state.go:89-92: under connectionsMutex, cm.Stop() and
\* then the delete, if the table holds the connection
Unregister ==
    /\ readLoop = "teardown"
    /\ connectionsMutex = "free"
    /\ readLoop' = "ended"
    /\ stopDetection' = (registered \/ stopDetection)
    /\ registered' = FALSE
    /\ Quiet
    /\ UNCHANGED <<core, detectorExited, table>>

\* state.go:229-230: the select of runSilenceDetection takes the closed
\* channel and the goroutine returns
DetectorExits ==
    /\ started
    /\ stopDetection
    /\ ~detectorExited
    /\ detectorExited' = TRUE
    /\ Quiet
    /\ UNCHANGED <<core, readLoop, registered, stopDetection, table>>

\* GetActiveConnectionsCount is called and waits for connectionsMutex
CountCalled ==
    /\ caller.count = "idle"
    /\ caller' = [caller EXCEPT !.count = "waiting"]
    /\ Quiet
    /\ UNCHANGED <<core, handler, connectionsMutex, counted, registryLock, outcome, stream>>

\* config.go:164-168
GetActiveConnectionsCount ==
    /\ caller.count = "waiting"
    /\ connectionsMutex = "free"
    /\ counted' = IF registered THEN 1 ELSE 0
    /\ caller' = [caller EXCEPT !.count = "idle"]
    /\ Quiet
    /\ UNCHANGED <<core, handler, connectionsMutex, registryLock, outcome, stream>>

\* BroadcastTextMessage is called and waits for connectionsMutex
BroadcastCalled ==
    /\ caller.broadcast = "idle"
    /\ caller' = [caller EXCEPT !.broadcast = "waiting"]
    /\ Quiet
    /\ UNCHANGED <<core, handler, connectionsMutex, counted, registryLock, outcome, stream>>

\* config.go:172-175: the mutex is taken; with an empty table the loop has
\* nothing to do and the deferred unlock runs
BroadcastLock ==
    /\ caller.broadcast = "waiting"
    /\ connectionsMutex = "free"
    /\ IF registered
          THEN /\ connectionsMutex' = "broadcast"
               /\ caller' = [caller EXCEPT !.broadcast = "write"]
          ELSE /\ caller' = [caller EXCEPT !.broadcast = "idle"]
               /\ UNCHANGED connectionsMutex
    /\ Quiet
    /\ UNCHANGED <<core, handler, counted, registryLock, outcome, stream>>

\* config.go:176: conn.WriteMessage is entered, the session lock not held
BroadcastWrite ==
    /\ caller.broadcast = "write"
    /\ caller' = [caller EXCEPT !.broadcast = "writing"]
    /\ ConnWrite(<<>>, InWrite)
    /\ received' = "none"
    /\ UNCHANGED <<core, handler, connectionsMutex, counted, registryLock, outcome, stream>>

\* the broadcast that returns with connectionsMutex still locked
BroadcastKeepsMutex ==
    /\ caller.broadcast = "writing"
    /\ caller' = [caller EXCEPT !.broadcast = "idle"]
    /\ ConnWrite(<<Frame("broadcast", "", 0)>>, FALSE)
    /\ received' = "none"
    /\ UNCHANGED <<core, handler, connectionsMutex, counted, registryLock, outcome, stream>>

\* config.go:176-181 and 173: WriteMessage returns, its error only logged,
\* the loop ends and the deferred unlock runs
BroadcastWritten ==
    /\ caller.broadcast = "writing"
    /\ caller' = [caller EXCEPT !.broadcast = "idle"]
    /\ connectionsMutex' = "free"
    /\ ConnWrite(<<Frame("broadcast", "", 0)>>, FALSE)
    /\ received' = "none"
    /\ UNCHANGED <<core, handler, counted, registryLock, outcome, stream>>

\* the steps made between cm.mu.Lock() and cm.mu.Unlock(): the handlers of
\* the frames that reach the switch (state.go:96-97, 148-149), the ticker's
\* case (216-227) and four sections of a round (255-258, 297-305, 308-311,
\* 342-344, 360-364)
CriticalSection ==
    \/ \E n \in FrameSizes : HandleBinaryMessage(n)
    \/ HandleHello
    \/ HandleListeningStart
    \/ HandleListeningStop
    \/ \E text \in TypedTexts \cup {""} : HandleText(text)
    \/ Tick
    \/ \E r \in Rounds :
          \/ RoundBegin(r)
          \/ RoundAppend(r)
          \/ RoundSpeaking(r)
          \/ RoundSendChunk(r)
          \/ RoundIdle(r)

(***************************************************************************)
(* The registries' mutex around default dispatch (LLMManager.Chat and      *)
(* StreamChat, TTSManager.SynthesizeSpeech) and around RegisterProvider    *)
(***************************************************************************)
Manager(reg) == IF reg = "llm" THEN llmManager ELSE ttsManager

\* a step of the registries: nothing of the session or of its handler changes
RegistryStep ==
    /\ Quiet
    /\ UNCHANGED <<started, session, ids, chatHistory, rounds, ctlFrames,
                   handler, connectionsMutex, caller, counted, outcome, stream>>

\* part_002:108-121, 125-138, tts/client.go:110-123: RLock (which waits
\* while a writer waits), the two checks, and the provider's method entered
\* with the deferred RUnlock still to run; a check that fails returns at once
DispatchCall(reg, c) ==
    /\ Manager(reg).present
    /\ c \notin registryLock[reg].readers \cup registryLock[reg].calling
    /\ registryLock[reg].writer = "idle"
    /\ registryLock' = IF Dispatch(Manager(reg)) = "provider"
          THEN [registryLock EXCEPT ![reg].readers = @ \cup {c},
                                    ![reg].calling = @ \cup {c}]
          ELSE registryLock
    /\ RegistryStep
    /\ UNCHANGED managers

\* the provider's method returns and the deferred RUnlock runs
DispatchReturn(reg, c) ==
    /\ c \in registryLock[reg].calling
    /\ registryLock' = [registryLock EXCEPT ![reg].readers = @ \ {c},
                                            ![reg].calling = @ \ {c}]
    /\ RegistryStep
    /\ UNCHANGED managers

\* RegisterProvider is called and waits in Lock()
RegisterCalled(reg) ==
    /\ Manager(reg).present
    /\ registryLock[reg].writer = "idle"
    /\ registryLock' = [registryLock EXCEPT ![reg].writer = "waiting"]
    /\ RegistryStep
    /\ UNCHANGED managers

\* part_002:64-76, tts/client.go:48-60: Lock() returns once no reader holds
\* the mutex, the provider is stored and the mutex released
RegisterLocked(reg) ==
    /\ registryLock[reg].writer = "waiting"
    /\ registryLock[reg].readers = {}
    /\ registryLock' = [registryLock EXCEPT ![reg].writer = "idle"]
    /\ \E name \in ProviderNames :
          IF reg = "llm"
             THEN /\ llmManager' = RegisterProvider(llmManager, name, "good")
                  /\ UNCHANGED ttsManager
             ELSE /\ ttsManager' = RegisterProvider(ttsManager, name, "good")
                  /\ UNCHANGED llmManager
    /\ RegistryStep

\* a call made on both registries by the code that sets them up
ApiStep ==
    /\ Quiet
    /\ UNCHANGED <<started, session, ids, chatHistory, rounds, ctlFrames,
                   handler, connectionsMutex, caller, counted, registryLock,
                   stream>>

\* the result of a call that returns err and, possibly, a provider
Result(was, err, provider) ==
    [NoResult EXCEPT !.err = err, !.provider = provider, !.ready = was.ready,
                     !.inited = was.inited]

\* part_002:64-76, tts/client.go:48-60
CallRegister(name, provider) ==
    /\ llmManager' = RegisterProvider(llmManager, name, provider)
    /\ ttsManager' = RegisterProvider(ttsManager, name, provider)
    /\ outcome' = [op |-> "register", name |-> name, provider |-> provider,
                   llm |-> [Result(outcome.llm, "none", "") EXCEPT !.inited = @ \ {name}],
                   tts |-> [Result(outcome.tts, "none", "") EXCEPT !.inited = @ \ {name}]]
    /\ ApiStep

\* part_002:79-89, tts/client.go:63-73
CallSetDefault(name) ==
    /\ llmManager' = SetDefaultProvider(llmManager, name).m
    /\ ttsManager' = SetDefaultProvider(ttsManager, name).m
    /\ outcome' = [op |-> "setDefault", name |-> name, provider |-> "",
                   llm |-> Result(outcome.llm, SetDefaultProvider(llmManager, name).err, ""),
                   tts |-> Result(outcome.tts, SetDefaultProvider(ttsManager, name).err, "")]
    /\ ApiStep

\* the names whose provider's Initialize returned nil in a run of Initialize
Succeeded(run) ==
    IF run.err = "none" THEN run.called ELSE run.called \ {run.failed}

\* part_002:92-104, tts/client.go:76-89
CallInitialize ==
    \E l \in InitializeRuns(llmManager), t \in InitializeRuns(ttsManager) :
       /\ llmManager' = l.m
       /\ ttsManager' = t.m
       /\ outcome' = [op |-> "initialize", name |-> "", provider |-> "",
                      llm |-> [err |-> l.err, provider |-> "", called |-> l.called,
                               failed |-> l.failed,
                               ready |-> outcome.llm.ready \/ l.err = "none",
                               inited |-> outcome.llm.inited \cup Succeeded(l)],
                      tts |-> [err |-> t.err, provider |-> "", called |-> t.called,
                               failed |-> t.failed,
                               ready |-> outcome.tts.ready \/ t.err = "none",
                               inited |-> outcome.tts.inited \cup Succeeded(t)]]
       /\ ApiStep

\* part_002:142-152, tts/client.go:92-107
CallGetProvider(name) ==
    /\ outcome' = [op |-> "get", name |-> name, provider |-> "",
                   llm |-> Result(outcome.llm, GetProviderLLM(llmManager, name).err,
                                  GetProviderLLM(llmManager, name).provider),
                   tts |-> Result(outcome.tts, GetProviderTTS(ttsManager, name).err,
                                  GetProviderTTS(ttsManager, name).provider)]
    /\ ApiStep
    /\ UNCHANGED managers

\* part_002:108-138, tts/client.go:110-123, the provider's method returning at
\* once
CallDefault ==
    /\ outcome' = [op |-> "dispatch", name |-> "", provider |-> "",
                   llm |-> Result(outcome.llm, DefaultCall(llmManager).err,
                                  DefaultCall(llmManager).provider),
                   tts |-> Result(outcome.tts, DefaultCall(ttsManager).err,
                                  DefaultCall(ttsManager).provider)]
    /\ ApiStep
    /\ UNCHANGED managers

ApiNext ==
    \/ \E name \in Names, provider \in Providers : CallRegister(name, provider)
    \/ \E name \in Names : CallSetDefault(name)
    \/ CallInitialize
    \/ \E name \in Names : CallGetProvider(name)
    \/ CallDefault

\* a StreamChat call on a provider
StreamStep ==
    /\ Quiet
    /\ UNCHANGED <<started, session, ids, chatHistory, managers, rounds, ctlFrames,
                   handler, connectionsMutex, caller, counted, registryLock,
                   outcome>>

\* deepseek_provider.go:228-305, once the backend has answered 200
DeepseekStreamChat(events, failAt) ==
    /\ LET run == ReadStream(events, 1, <<>>, <<>>, failAt)
       IN stream' = [provider |-> "deepseek", events |-> events, failAt |-> failAt,
                     chunks |-> run.chunks, err |-> run.err]
    /\ StreamStep

\* mock_provider.go:62-108, the provider initialized, the response len runes
MockStreamChat(len, failAt) ==
    /\ LET run == SendChunks(splitIntoChunks(len, mockChunkSize), 1, <<>>, failAt)
       IN stream' = [provider |-> "mock", events |-> <<len>>, failAt |-> failAt,
                     chunks |-> run.chunks, err |-> run.err]
    /\ StreamStep

StreamNext ==
    \/ \E events \in Streams, failAt \in 0..MaxEvents : DeepseekStreamChat(events, failAt)
    \/ \E len \in ResponseLens, failAt \in 0..MaxEvents : MockStreamChat(len, failAt)

RegistryNext ==
    \E reg \in Registries :
       \/ \E c \in Callers : DispatchCall(reg, c)
       \/ \E c \in Callers : DispatchReturn(reg, c)
       \/ RegisterCalled(reg)
       \/ RegisterLocked(reg)

\* the goroutines the session owns: its ticker and its rounds
Internal ==
    \/ Tick
    \/ \E r \in Rounds : processUserText(r)

\* an audio frame, while the device has sent fewer than maxFrames of them
AudioIn(maxFrames) ==
    \E n \in FrameSizes :
       /\ totalAudioBytes + n <= maxFrames * n
       /\ HandleBinaryMessage(n)

\* the frames the read loop hands to the session, while the device has sent
\* fewer than maxFrames audio frames and maxCtl text frames
Inbound(maxFrames, maxCtl) ==
    \/ AudioIn(maxFrames)
    \/ ctlFrames < maxCtl /\ HandleHello
    \/ ctlFrames < maxCtl /\ HandleListeningStart
    \/ ctlFrames < maxCtl /\ HandleListeningStop
    \/ ctlFrames < maxCtl /\ \E text \in TypedTexts \cup {""} : HandleText(text)
    \/ ctlFrames < maxCtl /\ HandleIgnored

Next == Start \/ Inbound(MaxFrames, MaxCtl) \/ Internal

BriefNext == Start \/ Inbound(MaxBriefFrames, MaxBriefCtl) \/ Internal

SilenceNext == Start \/ AudioIn(MaxUtterance) \/ Internal

StopNext ==
    \/ Start
    \/ AudioIn(MaxStopFrames)
    \/ ctlFrames < MaxStops /\ HandleListeningStop
    \/ Internal

TypedNext ==
    \/ Start
    \/ AudioIn(MaxEchoes)
    \/ ctlFrames < MaxTexts /\ \E text \in TypedTexts : HandleText(text)
    \/ Internal

\* typed texts on a connection that may break, with the handler's teardown
LossyNext ==
    \/ Start
    \/ ctlFrames < MaxTexts /\ \E text \in TypedTexts : HandleText(text)
    \/ Internal
    \/ ConnBreaks
    \/ ReadFails
    \/ Unregister
    \/ DetectorExits

\* the steps made while connectionsMutex is held (config.go:79-84, 165-167,
\* 172-180)
TableSection ==
    \/ Unregister
    \/ GetActiveConnectionsCount
    \/ BroadcastLock
    \/ BroadcastWrite
    \/ BroadcastWritten

\* the callers of the connection table's two operations
TableCalls ==
    \/ CountCalled
    \/ BroadcastCalled

\* a session with typed texts, its teardown, and the callers of the
\* connection table
TableNext ==
    \/ Start
    \/ ctlFrames < MaxTexts /\ \E text \in TypedTexts : HandleText(text)
    \/ Internal
    \/ ReadFails
    \/ DetectorExits
    \/ TableCalls
    \/ TableSection

\* typed texts, each starting a round, on a connection whose read fails
ClosingNext ==
    \/ Start
    \/ ctlFrames < MaxTurns /\ \E text \in TypedTexts : HandleText(text)
    \/ Internal
    \/ ReadFails
    \/ Unregister
    \/ DetectorExits

\* a session with a typed text whose read fails, and the callers of count
TeardownNext ==
    \/ Start
    \/ ctlFrames < MaxTexts /\ \E text \in TypedTexts : HandleText(text)
    \/ Internal
    \/ ReadFails
    \/ Unregister
    \/ DetectorExits
    \/ CountCalled
    \/ GetActiveConnectionsCount

HistoryNext ==
    \/ ctlFrames < MaxTurns /\ \E text \in TypedTexts : HandleText(text)
    \/ Internal

\* a session whose device sends a few audio frames and control frames of
\* every kind
Spec == Init /\ [][Next]_vars

\* The Go scheduler runs every goroutine that can run, and every backend call
\* is assumed to return: a round that can take a step eventually takes it.
LiveSpec == Spec /\ \A r \in Rounds : WF_vars(processUserText(r))

\* the same with fewer frames
BriefSpec == Init /\ [][BriefNext]_vars

\* a session whose device speaks one utterance and sends no text frame
SilenceSpec == Init /\ [][SilenceNext]_vars

\* a session whose device ends its utterance with listening_stop
StopSpec == Init /\ [][StopNext]_vars

\* a session whose device types its text while it streams some audio
TypedSpec == Init /\ [][TypedNext]_vars /\ \A r \in Rounds : WF_vars(processUserText(r))

\* a session that goes on with typed exchanges after earlier ones
HistorySpec == InitLater /\ [][HistoryNext]_vars

\* a session whose connection may break while a round is delivering
LossySpec == Init /\ [][LossyNext]_vars /\ \A r \in Rounds : WF_vars(processUserText(r))

\* a session, its teardown and the callers of the connection table
TableSpec == Init /\ [][TableNext]_vars

\* a session whose connection closes while rounds are in flight
ClosingSpec == Init /\ [][ClosingNext]_vars /\ \A r \in Rounds : WF_vars(processUserText(r))

\* The handler's goroutine runs its deferred function once the loop has
\* broken, connectionsMutex being held only for the length of a count; and the
\* detector's select takes the closed channel after finitely many ticks.
TeardownSpec ==
    /\ Init /\ [][TeardownNext]_vars
    /\ \A r \in Rounds : WF_vars(processUserText(r))
    /\ WF_vars(Unregister)
    /\ WF_vars(DetectorExits)

\* The ticker of runSilenceDetection fires every tickerPeriod for as long as
\* the detector runs, and the scheduler runs every round that can take a step.
QuietSpec ==
    /\ Init /\ [][BriefNext]_vars
    /\ WF_vars(Tick)
    /\ \A r \in Rounds : WF_vars(processUserText(r))

\* the two registries, set up by the same sequence of calls
ApiSpec == InitNew /\ [][ApiNext]_vars

\* StreamChat calls on the two providers
StreamSpec == InitNew /\ [][StreamNext]_vars

\* the two registries, used by goroutines that dispatch and by one that
\* registers providers
RegistrySpec == Init /\ [][RegistryNext]_vars

(***************************************************************************)
(* Properties                                                              *)
(***************************************************************************)
Notices(fs) == SelectSeq(fs, LAMBDA f : f.type = "listen")

\* the edges of the transition table, each with the event that may take it
PhaseEdge ==
    \/ /\ currentState = StateIdle /\ currentState' = StateListening
       /\ received' = "audio"
    \/ /\ currentState = StateListening /\ currentState' = StateThinking
       /\ received' \in {"none", "listening_stop"}
       /\ audioFrameCount >= minAudioFrames
    \/ /\ currentState = StateListening /\ currentState' = StateIdle
       /\ received' = "listening_stop"
       /\ audioFrameCount < minAudioFrames
    \/ /\ currentState = StateThinking /\ currentState' = StateSpeaking
       /\ received' = "none"
    \/ /\ currentState = StateSpeaking /\ currentState' = StateIdle
       /\ received' = "none"
    \/ /\ currentState' = StateThinking
       /\ received' = "text"

\* C1: every change of the session's phase is an edge of the transition
\* table: Idle->Listening on an audio frame, Listening->Thinking on silence or
\* on listening_stop with enough frames, Listening->Idle on listening_stop with
\* too few, Thinking->Speaking and Speaking->Idle by the round, anything->
\* Thinking on a text frame; in particular listening_start and listening_stop
\* change no phase in Idle, Thinking or Speaking.
C1_PhaseEdges == [][currentState' # currentState => PhaseEdge]_vars

\* the order thinking, speaking, idle, repeated
FollowsNotice(prev, new) ==
    \/ new = StateThinking /\ prev \in {"none", StateIdle}
    \/ new = StateSpeaking /\ prev = StateThinking
    \/ new = StateIdle /\ prev = StateSpeaking

\* C2: the listen notices written to the device are, in order, repetitions of
\* thinking, speaking, idle: each notice written follows the one written
\* before it in that cycle.
C2_NoticeOrder ==
    [][\A k \in DOMAIN Notices(wrote') :
          FollowsNotice(lastNotice, Notices(wrote')[k].arg)]_vars

\* C3: under fair scheduling of the rounds, with every backend call
\* returning, a session in Thinking or in Speaking eventually is in Idle
\* again, whatever the backends return.
C3_ReturnsToIdle ==
    (currentState \in {StateThinking, StateSpeaking}) ~> (currentState = StateIdle)

\* the utterance of the silence-detection scenario: 25 audio frames
utteranceFrames == minAudioFrames + 5
utteranceBytes == utteranceFrames * 320

\* C4: with silenceDuration 1500 ms and minAudioFrames 20, the ticker moves a
\* Listening session to Thinking only when more than 1500 ms have passed since
\* the last audio frame and at least 20 frames were counted; a Listening
\* session with 20 frames or more is moved by the tick that ends the 16th
\* period of silence at the latest; and a session that received at most 25
\* audio frames and no text frame starts at most one round.
C4_SilenceDetection ==
    /\ [][(/\ currentState = StateListening
           /\ currentState' = StateThinking
           /\ received' = "none")
          => /\ (sinceAudio + 1) * tickerPeriod > silenceDuration
             /\ audioFrameCount >= minAudioFrames]_vars
    /\ [](currentState = StateListening /\ audioFrameCount >= minAudioFrames
          => sinceAudio * tickerPeriod <= silenceDuration)
    /\ [](ctlFrames = 0 /\ totalAudioBytes <= utteranceBytes => NumRounds <= 1)

\* 25 audio frames, no text frame, and the ticker has just started the round
C4_Witness ==
    /\ ctlFrames = 0
    /\ audioFrameCount = utteranceFrames
    /\ totalAudioBytes = utteranceBytes
    /\ currentState = StateThinking
    /\ received = "none"
    /\ wrote = <<Notice(StateThinking, 1)>>
    /\ rounds[1].pc = "begin"
    /\ NumRounds = 1

\* C5: audioFrameCount is 0 right after every change of the phase into Idle.
C5_IdleResetsCount ==
    [][currentState # StateIdle /\ currentState' = StateIdle
       => audioFrameCount' = 0]_vars

\* C6: a listening_stop frame handled while audioFrameCount < minAudioFrames
\* leaves the session Idle, starts no round and writes no notice.
C6_ShortStopDiscards ==
    [][received' = "listening_stop" /\ audioFrameCount < minAudioFrames
       => /\ currentState' = StateIdle
          /\ rounds' = rounds
          /\ wrote' = <<>>]_vars

\* listening_stop has just been handled with 19 frames counted
C6_Witness ==
    /\ received = "listening_stop"
    /\ audioFrameCount = minAudioFrames - 1
    /\ currentState = StateIdle
    /\ NumRounds = 0

\* C7: a listening_stop frame handled in Listening with audioFrameCount >=
\* minAudioFrames writes the thinking notice, sets the phase to Thinking and
\* starts exactly one round, on the recognized text, all in the handler's step.
C7_StopProcessesSpeech ==
    [][(/\ received' = "listening_stop"
        /\ currentState = StateListening
        /\ audioFrameCount >= minAudioFrames)
       => /\ currentState' = StateThinking
          /\ wrote' = <<Notice(StateThinking, NextRound)>>
          /\ rounds' = [rounds EXCEPT ![NextRound] =
                           [NoRound EXCEPT !.pc = "begin", !.text = recognizedText]]]_vars

\* listening_stop has just been handled with exactly 20 frames counted, and
\* the first round of the session is at its start
C7_Witness ==
    /\ received = "listening_stop"
    /\ audioFrameCount = minAudioFrames
    /\ currentState = StateThinking
    /\ wrote = <<Notice(StateThinking, 1)>>
    /\ NumRounds = 1
    /\ rounds[1] = [NoRound EXCEPT !.pc = "begin", !.text = recognizedText]

ListeningStarts(fs) == SelectSeq(fs, LAMBDA f : f.type = "listening_start")

\* C8: an audio frame handled in Idle moves the session to Listening and
\* writes exactly one listening_start notice; an audio frame handled in any
\* other state changes no phase and writes none.
C8_OneListeningStart ==
    [][received' = "audio"
       => IF currentState = StateIdle
             THEN /\ currentState' = StateListening
                  /\ Len(ListeningStarts(wrote')) = 1
             ELSE /\ currentState' = currentState
                  /\ ListeningStarts(wrote') = <<>>]_vars

\* the second audio frame of an utterance that began in Idle: announced once,
\* by the first frame
C8_Witness ==
    /\ received = "audio"
    /\ currentState = StateListening
    /\ audioFrameCount = 2
    /\ totalAudioBytes = 2 * 320
    /\ ctlFrames = 0
    /\ NumRounds = 0
    /\ ListeningStarts(wrote) = <<>>

\* what a step of round r does when the round's generation call has failed
AfterChatError(r) ==
    /\ (rounds[r].llmErr = "none" /\ rounds'[r].llmErr # "none")
       => /\ rounds'[r].pc = "append"
          /\ rounds'[r].llmResponse = apologyText
    /\ (rounds[r].llmErr # "none" /\ rounds'[r] # rounds[r])
       => CASE rounds[r].pc = "append" ->
                 /\ rounds'[r].pc = "speaking"
                 /\ chatHistory'[Len(chatHistory')] =
                        [role |-> "assistant", content |-> apologyText]
            [] rounds[r].pc = "speaking" ->
                 /\ rounds'[r].pc = "text"
                 /\ wrote' = <<Notice(StateSpeaking, r)>>
                 /\ currentState' = StateSpeaking
            [] rounds[r].pc = "text" ->
                 /\ rounds'[r].pc = "texting"
                 /\ wrote' = <<>>
            [] rounds[r].pc = "texting" ->
                 /\ rounds'[r].pc = "tts"
                 /\ wrote' = <<Frame("text", apologyText, r)>>
            [] rounds[r].pc \in {"tts", "chunk", "delay"} ->
                 rounds'[r].pc \in {"chunk", "delay", "idle"}
            [] rounds[r].pc = "idle" ->
                 /\ rounds'[r].pc = "done"
                 /\ wrote' = <<Notice(StateIdle, r)>>
                 /\ currentState' = StateIdle
            [] OTHER -> FALSE

AfterSynthesisError(r) ==
    /\ (rounds[r].ttsErr = "none" /\ rounds'[r].ttsErr # "none")
       => /\ rounds'[r].pc = "delay"
          /\ wrote' = <<>>
    /\ (rounds[r].ttsErr # "none" /\ rounds'[r] # rounds[r])
       => CASE rounds[r].pc = "delay" ->
                 /\ rounds'[r].pc = "idle"
                 /\ rounds'[r].delayed
                 /\ wrote' = <<>>
            [] rounds[r].pc = "idle" ->
                 /\ rounds'[r].pc = "done"
                 /\ wrote' = <<Notice(StateIdle, r)>>
                 /\ currentState' = StateIdle
            [] OTHER -> FALSE
    /\ \A k \in DOMAIN wrote' :
          wrote'[k].type = "audio" /\ wrote'[k].by = r => rounds[r].ttsErr = "none"

\* C10: a round whose synthesis call returns an error (the registry's
\* NotInitialized or ProviderNotFound, or the backend's) writes no audio chunk,
\* waits the fallback delay, then writes the idle notice and sets Idle; under
\* fair scheduling it gets there for as long as the process runs.
C10_SynthesisErrorSkipsAudio ==
    /\ [][\A r \in Rounds : AfterSynthesisError(r)]_vars
    /\ \A r \in Rounds :
          (rounds[r].ttsErr # "none") ~> (rounds[r].pc = "done" \/ crashed)

\* the registry found no provider, and the round has waited the fallback
\* delay and is about to write the idle notice
C10_Witness ==
    /\ rounds[1].ttsErr = "ProviderNotFound"
    /\ rounds[1].delayed
    /\ rounds[1].pc = "idle"
    /\ wrote = <<>>

\* C11: in the scenario of 25 audio frames followed by silence the server
\* writes the server hello when the session starts, announces Listening once,
\* on the first audio frame, and then writes, in this order, the thinking
\* notice, the text response, the speaking notice, the audio chunks (if
\* synthesis returned any) and the idle notice: the text response is written
\* while the last notice is the thinking notice, and the speaking notice, the
\* round's audio chunks and the idle notice only after it.
C11_EndToEndOrder ==
    [][/\ ~started => wrote' = <<Frame("hello", "ok", 0)>>
       /\ received' = "audio"
          => Len(ListeningStarts(wrote')) + Len(Notices(wrote'))
                = IF currentState = StateIdle THEN 1 ELSE 0
       /\ \A k \in DOMAIN wrote' :
             /\ wrote'[k].type = "text" => lastNotice = StateThinking
             /\ wrote'[k].type = "listen" /\ wrote'[k].arg = StateSpeaking
                => rounds[wrote'[k].by].pc \notin {"speaking", "text", "texting"}
             /\ wrote'[k].type = "audio" /\ wrote'[k].by # 0
                => lastNotice = StateSpeaking
             /\ wrote'[k].type = "listen" /\ wrote'[k].arg = StateIdle
                => lastNotice = StateSpeaking]_vars

\* C12: the first entry of the history is the system prompt in every state,
\* and the system message is nowhere else: no append and no compaction, of
\* rounds one after the other or overlapping, evicts, moves or overwrites it.
C12_SystemPromptStays ==
    /\ Len(chatHistory) >= 1
    /\ chatHistory[1] = [role |-> "system", content |-> systemPrompt]
    /\ \A k \in 2..Len(chatHistory) : chatHistory[k].role # "system"

\* a round has just appended its reply to a full history: the compaction has
\* evicted the oldest exchange and kept the system prompt
C12_Witness ==
    /\ \E r \in Rounds : rounds[r].pc = "speaking"
    /\ Len(chatHistory) = historyCap
    /\ chatHistory[1] = [role |-> "system", content |-> systemPrompt]
    /\ chatHistory[Len(chatHistory)].role = "assistant"
    /\ \A k \in DOMAIN chatHistory : chatHistory[k].content # "oldest"

\* the rounds that have appended their user message and not yet their reply
Answering == {r \in Rounds : rounds[r].pc \in {"stream", "chat", "append"}}

ChunksOf(r, fs) == SelectSeq(fs, LAMBDA f : f.type = "audio" /\ f.by = r)

CeilDiv(n, d) == (n + d - 1) \div d

\* C14: on a connection whose writes succeed, a synthesized payload of N
\* bytes is written as ceil(N / 32768) binary frames of at most 32768 bytes
\* each which, in the order written, are the consecutive pieces of the
\* payload: the first begins at byte 0, each next one where the one before
\* ended, the last ends at byte N; a payload of 0 bytes is written as no frame.
C14_AudioRoundTrip ==
    [][\A r \in Rounds :
          /\ rounds[r].pc = "tts" /\ rounds'[r].pc # "tts"
             => /\ ChunksOf(r, wrote') = <<>>
                /\ rounds'[r].i = 0
                /\ (rounds'[r].pc = "chunk") = (rounds'[r].audioLen > 0)
          /\ rounds[r].pc = "chunk" /\ rounds'[r] # rounds[r]
             => /\ Len(ChunksOf(r, wrote')) = 1
                /\ LET c == ChunksOf(r, wrote')[1]
                       N == rounds[r].audioLen
                   IN /\ c.lo = rounds[r].i
                      /\ c.lo % chunkSize = 0
                      /\ c.hi - c.lo > 0
                      /\ c.hi - c.lo <= chunkSize
                      /\ c.hi <= N
                      /\ IF c.hi = N
                            THEN /\ rounds'[r].pc = "idle"
                                 /\ (c.lo \div chunkSize) + 1 = CeilDiv(N, chunkSize)
                            ELSE /\ rounds'[r].pc = "chunk"
                                 /\ rounds'[r].i = c.hi
          /\ rounds[r].pc \notin {"chunk"} => ChunksOf(r, wrote') = <<>>]_vars

\* the round has written the second and last chunk, of one byte, of a payload
\* of 32769 bytes
C14_Witness ==
    /\ wrote = <<AudioChunk(chunkSize, chunkSize + 1, 1)>>
    /\ rounds[1].pc = "idle"
    /\ currentState = StateSpeaking

\* C15: when the write of an audio chunk returns an error, the round leaves
\* the chunk loop at once: the chunk is not delivered, no later chunk of the
\* response is written, the step closes nothing and changes nothing of the
\* read loop or of the connection table, and the round's next and last step is
\* the one that sends the idle notice (delivered only if the connection still
\* carries writes) and sets Idle; under fair scheduling it gets there for as
\* long as the process runs.
C15_ChunkErrorEndsDelivery ==
    /\ [][\A r \in Rounds :
             /\ (rounds[r].pc = "chunk" /\ rounds'[r] # rounds[r] /\ conn # "open")
                => /\ rounds'[r].sendErr
                   /\ rounds'[r].pc = "idle"
                   /\ wrote' = <<>>
                   /\ conn' = "failed"
                   /\ handler' = handler
                   /\ table' = table
             /\ rounds'[r].sendErr /\ ~rounds[r].sendErr
                => rounds[r].pc = "chunk" /\ conn # "open"
             /\ rounds[r].sendErr
                => /\ ChunksOf(r, wrote') = <<>>
                   /\ rounds'[r] # rounds[r]
                      => /\ rounds[r].pc = "idle"
                         /\ rounds'[r].pc = "done"
                         /\ currentState' = StateIdle
                         /\ wrote' = IF conn = "open"
                                        THEN <<Notice(StateIdle, r)>> ELSE <<>>]_vars
    /\ \A r \in Rounds :
          rounds[r].sendErr ~> (rounds[r].pc = "done" \/ crashed)

\* the connection broke while round 1 was delivering: the write of a chunk has
\* just returned the error, and the round is about to send the idle notice
C15_Witness ==
    /\ rounds[1].sendErr
    /\ rounds[1].pc = "idle"
    /\ wrote = <<>>
    /\ conn = "failed"
    /\ currentState = StateSpeaking

\* C16: every step of the read loop, of the ticker and of a round that
\* changes the phase, the frame or byte count, the time of the last audio
\* frame, the history or the client or device id is a step made inside one of
\* the sections of the code that hold the session lock; the sections run one
\* at a time.
C16_StateUnderLock ==
    [][(session' # session \/ chatHistory' # chatHistory \/ ids' # ids)
       => CriticalSection]_vars

\* an audio frame has just been counted, under the lock, while round 1 is
\* inside the write of its text response, which it makes without the lock
C16_Witness ==
    /\ received = "audio"
    /\ audioFrameCount = 1
    /\ rounds[1].pc = "texting"
    /\ currentState = StateSpeaking
    /\ ~crashed

\* C17: no caller is inside a provider's generate, generateStreaming or
\* synthesize while it holds the mutex of the registry it dispatched through,
\* so a RegisterProvider that waits for the mutex never waits for a backend
\* call to return.
C17_NoLockAcrossCall ==
    \A reg \in Registries :
       /\ registryLock[reg].calling \cap registryLock[reg].readers = {}
       /\ registryLock[reg].writer = "waiting" /\ registryLock[reg].calling # {}
          => registryLock[reg].readers = {}

\* some goroutine is at connectionsMutex.Lock() or holds connectionsMutex
AtTable ==
    \/ caller.count = "waiting"
    \/ caller.broadcast # "idle"
    \/ readLoop = "teardown"

\* C18: no section that holds the session lock takes, holds or waits for
\* connectionsMutex, and no section that holds connectionsMutex changes what
\* the session lock protects or runs a round; connectionsMutex is held exactly
\* while the broadcast is between its lock and its deferred unlock; and in
\* every state of the running process, if a count, a broadcast or the
\* handler's teardown is at connectionsMutex then one of them can take it or
\* go on under it, and every round that has started and not ended can take
\* its next step.
C18_DeadlockFree ==
    /\ [][CriticalSection => UNCHANGED <<connectionsMutex, caller, counted,
                                         readLoop, registered>>]_vars
    /\ [][TableSection => UNCHANGED <<session, chatHistory, ids, rounds>>]_vars
    /\ [](connectionsMutex = "broadcast"
            <=> caller.broadcast \in {"write", "writing"})
    /\ [](AtTable /\ ~crashed => ENABLED TableSection)
    /\ [](\A r \in Rounds :
             rounds[r].pc \notin {"none", "done"} /\ ~crashed
                => ENABLED processUserText(r))

\* the broadcast holds connectionsMutex inside its write while the handler's
\* teardown and a count both wait for it and a round is before its reply
C18_Witness ==
    /\ connectionsMutex = "broadcast"
    /\ caller.broadcast = "writing"
    /\ caller.count = "waiting"
    /\ readLoop = "teardown"
    /\ rounds[1].pc = "append"
    /\ ~crashed

\* a round that has started and not returned
InFlight(r) == rounds[r].pc \notin {"none", "done"}

\* C19: once the read loop has ended on a closed connection, the teardown
\* closes stopDetection; the process does not panic; a step of a round made
\* after that delivers no frame; and every round in flight then returns, the
\* step that ends it leaving the phase Idle.
C19_RoundSurvivesClose ==
    /\ [][readLoop = "teardown" /\ readLoop' = "ended" => stopDetection']_vars
    /\ [](readLoop # "reading" => ~crashed /\ wrote = <<>>)
    /\ [][\A r \in Rounds :
            readLoop # "reading" /\ InFlight(r) /\ ~InFlight(r)'
               => currentState' = StateIdle]_vars
    /\ \A r \in Rounds :
          (readLoop # "reading" /\ InFlight(r)) ~> (rounds[r].pc = "done")

\* C20: the read loop leaves "reading" only for the teardown and handles no
\* frame afterwards; the teardown is entered once and left once; the table's
\* entry is removed only by the teardown's step, which also closes
\* stopDetection, closed by no other step, so that the entry is never gone
\* with the ticker still wanted; a count that returns after the teardown
\* returns 0; the detector, once returned, stays so; and for as long as the
\* process runs the teardown that was entered is left and the detector
\* returns.
C20_TeardownOnce ==
    /\ [][readLoop' # readLoop
          => \/ readLoop = "reading" /\ readLoop' = "teardown" /\ registered'
             \/ readLoop = "teardown" /\ readLoop' = "ended" /\ ~registered']_vars
    /\ [](readLoop # "reading" => received = "none")
    /\ [][registered' # registered \/ stopDetection' # stopDetection
          => /\ readLoop = "teardown" /\ readLoop' = "ended"
             /\ registered /\ ~registered'
             /\ ~stopDetection /\ stopDetection']_vars
    /\ [](~registered => stopDetection)
    /\ [][readLoop = "ended" /\ caller.count = "waiting" /\ caller'.count = "idle"
          => counted' = 0]_vars
    /\ [][detectorExited => detectorExited']_vars
    /\ (readLoop = "teardown") ~> (readLoop = "ended" \/ crashed)
    /\ (readLoop # "reading") ~> (detectorExited \/ crashed)

\* after a failed read: the teardown done, the ticker's goroutine returned, and
\* a count made since has returned 0
C20_Witness ==
    /\ readLoop = "ended"
    /\ ~registered
    /\ stopDetection
    /\ detectorExited
    /\ caller.count = "idle"
    /\ counted = 0
    /\ ~crashed

\* C21: in both registries, in every state reached by calls of
\* RegisterProvider, SetDefaultProvider and Initialize, the default name is
\* empty (not set) or keys a provider of the map.
C21_DefaultIsRegistered ==
    \A m \in {llmManager, ttsManager} :
       m.defaultProvider # "" => m.defaultProvider \in DOMAIN m.providers

\* two providers registered, and SetDefaultProvider has just moved the default
\* from the first to the second
C21_Witness ==
    /\ outcome.op = "setDefault"
    /\ outcome.name = "spare"
    /\ outcome.llm.err = "none"
    /\ DOMAIN llmManager.providers = {"mock", "spare"}
    /\ llmManager.defaultProvider = "spare"
    /\ ttsManager.defaultProvider = "spare"

\* what RegisterProvider(name, provider) makes of the registry m, m2 being the
\* registry afterwards: one entry for name, holding provider, the other
\* entries and the ready flag as they were; the default is name if nothing
\* was registered before and is unchanged otherwise
Registers(m, m2, name, provider) ==
    /\ DOMAIN m2.providers = DOMAIN m.providers \cup {name}
    /\ m2.providers[name] = provider
    /\ \A n \in DOMAIN m.providers \ {name} : m2.providers[n] = m.providers[n]
    /\ m2.initialized = m.initialized
    /\ m2.defaultProvider = IF DOMAIN m.providers = {} THEN name ELSE m.defaultProvider

\* C22: RegisterProvider returns no error and leaves one entry for the name,
\* holding the provider of this call; the provider registered first becomes
\* the default, and a later registration leaves the default as it was.
C22_RegisterKeepsDefault ==
    [][outcome'.op = "register"
       => /\ outcome'.llm.err = "none"
          /\ outcome'.tts.err = "none"
          /\ Registers(llmManager, llmManager', outcome'.name, outcome'.provider)
          /\ Registers(ttsManager, ttsManager', outcome'.name, outcome'.provider)]_vars

\* what SetDefaultProvider(name) returning err makes of the registry m, m2
\* being the registry afterwards
SetsDefault(m, m2, name, err) ==
    /\ err = IF name \in DOMAIN m.providers THEN "none" ELSE "ProviderNotFound"
    /\ err # "none" => m2 = m
    /\ err = "none" => m2 = [m EXCEPT !.defaultProvider = name]

\* C23: SetDefaultProvider(name) returns ProviderNotFound exactly when no
\* provider is registered under name, and then leaves the default, the map
\* and the ready flag as they were; otherwise it returns no error and the
\* default is name, the map and the flag as they were.
C23_SetDefaultChecksName ==
    [][outcome'.op = "setDefault"
       => /\ SetsDefault(llmManager, llmManager', outcome'.name, outcome'.llm.err)
          /\ SetsDefault(ttsManager, ttsManager', outcome'.name, outcome'.tts.err)]_vars

\* SetDefaultProvider("spare") has just failed on an initialized registry that
\* holds "mock" only, its default
C23_Witness ==
    /\ outcome.op = "setDefault"
    /\ outcome.name = "spare"
    /\ outcome.llm.err = "ProviderNotFound"
    /\ outcome.tts.err = "ProviderNotFound"
    /\ DOMAIN llmManager.providers = {"mock"}
    /\ llmManager.defaultProvider = "mock"
    /\ llmManager.initialized

\* what a failed Initialize leaves of the registry m: the failing provider was
\* the last one called, the registry is not ready and default dispatch
\* returns NotInitialized
FailsFast(m, res) ==
    res.err # "none"
       => /\ res.failed \in res.called
          /\ \A n \in res.called \ {res.failed} : ~InitFails(m.providers[n])
          /\ ~m.initialized
          /\ DefaultCall(m).err = "NotInitialized"

\* C24: when the Initialize of a registered provider fails, Initialize returns
\* the error having called no provider after the failing one, and the
\* registry is then not ready, default dispatch returning NotInitialized,
\* whether or not an earlier Initialize had succeeded.
C24_InitializeFailsFast ==
    outcome.op = "initialize"
       => /\ FailsFast(llmManager, outcome.llm)
          /\ FailsFast(ttsManager, outcome.tts)

\* what default dispatch through the registry m returned
Dispatched(m, res) ==
    /\ ~res.ready => res.err = "NotInitialized"
    /\ res.ready /\ m.defaultProvider \notin DOMAIN m.providers
          => res.err = "ProviderNotFound"
    /\ res.ready /\ m.defaultProvider \in DOMAIN m.providers
          => res.err = "none" /\ res.provider = m.providers[m.defaultProvider]
    /\ res.err # "none" => res.provider = ""

\* C25: default dispatch through a registry of which no Initialize has
\* succeeded returns NotInitialized; through one that is ready it returns
\* ProviderNotFound when the default name keys no provider and otherwise
\* invokes the default provider; when it returns either error it has invoked
\* no provider.
C25_DispatchChecks ==
    outcome.op = "dispatch"
       => /\ Dispatched(llmManager, outcome.llm)
          /\ Dispatched(ttsManager, outcome.tts)

\* a registry initialized with nothing registered: dispatch found no provider
C25_Witness ==
    /\ outcome.op = "dispatch"
    /\ outcome.llm.ready
    /\ outcome.llm.err = "ProviderNotFound"
    /\ outcome.tts.err = "ProviderNotFound"
    /\ llmManager.providers = NoProviders

\* what GetProvider(name) on the registry m returned
Got(m, name, res) ==
    /\ ~res.ready => res.err = "NotInitialized"
    /\ res.ready /\ name \notin DOMAIN m.providers => res.err = "ProviderNotFound"
    /\ res.err # "none" => res.provider = ""

\* C26: GetProvider(name) on a registry of which no Initialize has succeeded
\* returns NotInitialized, and on a ready one ProviderNotFound when name keys
\* no provider; after the same calls the two registries return the same
\* error and the same provider.
C26_GetProviderChecks ==
    outcome.op = "get"
       => /\ Got(llmManager, outcome.name, outcome.llm)
          /\ Got(ttsManager, outcome.name, outcome.tts)
          /\ outcome.llm.err = outcome.tts.err
          /\ outcome.llm.provider = outcome.tts.provider

\* the contents of the deltas of a stream, in the order of arrival
RECURSIVE DeltaContents(_)
DeltaContents(events) ==
    IF events = <<>> THEN <<>>
    ELSE IF Head(events).kind = "delta"
       THEN <<Head(events).content>> \o DeltaContents(Tail(events))
       ELSE DeltaContents(Tail(events))

Terminal(chunks) == {k \in DOMAIN chunks : chunks[k].isFinal}

\* C27: a StreamChat call whose callback returns no error hands the callback
\* exactly one chunk flagged final, as the last chunk, with a finish reason;
\* with the deepseek provider the chunks before it are the deltas of the
\* stream, one chunk each, in the order of arrival; a call whose callback
\* returns an error hands it no further chunk and returns an error.
C27_OneTerminalChunk ==
    /\ stream.provider # "none" /\ stream.err = "none"
          => /\ Terminal(stream.chunks) = {Len(stream.chunks)}
             /\ stream.chunks # <<>>
             /\ stream.chunks[Len(stream.chunks)].finishReason # ""
    /\ stream.provider = "deepseek" /\ stream.err = "none"
          => LET deltas == DeltaContents(stream.events)
             IN /\ Len(stream.chunks) >= Len(deltas)
                /\ \A k \in DOMAIN deltas : stream.chunks[k].content = deltas[k]
    /\ stream.provider # "none"
          => (stream.err # "none"
                <=> stream.failAt \in 1..Len(stream.chunks))
    /\ stream.err # "none" => Len(stream.chunks) = stream.failAt

\* C28: at most one round is in flight: a round is started only when every
\* earlier round has returned.
C28_OneRoundInFlight ==
    Cardinality({r \in Rounds : InFlight(r)}) <= 1

\* C29: every frame is handed to the connection by a step made while the
\* session lock is held (the server hello excepted, written by Start before
\* any other goroutine of the session runs), and no goroutine is ever inside
\* a WriteMessage that it entered without the lock, so that no two writes
\* overlap.
C29_WritesUnderLock ==
    /\ [][wrote' # <<>> => CriticalSection \/ ~started]_vars
    /\ [](~InWrite)

\* C30: a step of a round made while the session is Listening (an utterance
\* begun after the round was started) leaves the session Listening and the
\* count of the utterance's audio frames as it was.
C30_RoundLeavesListening ==
    [][(\E r \in Rounds : processUserText(r)) /\ currentState = StateListening
       => currentState' = StateListening /\ audioFrameCount' = audioFrameCount]_vars

\* C31: the audio frame that takes the session from Idle to Listening starts
\* the counters afresh: after it audioFrameCount is 1 and totalAudioBytes is
\* the size of that frame, so that the count compared with minAudioFrames is
\* the count of the frames received since the session left Idle.
C31_CountersResetOnListening ==
    [][/\ received' = "audio"
       /\ currentState = StateIdle
       /\ currentState' = StateListening
       => audioFrameCount' = 1 /\ totalAudioBytes' \in FrameSizes]_vars

\* C32: the device sends finitely many frames, so from some point on no
\* frame arrives; for as long as the process runs the session does not stay
\* in Listening for ever after, whatever the number of audio frames counted.
C32_ListeningIsLeft ==
    []<>(currentState # StateListening \/ crashed)

\* C33: on an open connection every step that changes the phase writes a
\* frame that names the new phase: the listen notice with that state, or, for
\* Listening, the listening_start frame.
C33_PhaseChangeIsAnnounced ==
    [][currentState' # currentState /\ conn = "open"
       => \E k \in DOMAIN wrote' :
             \/ wrote'[k] = Notice(currentState', wrote'[k].by)
             \/ /\ currentState' = StateListening
                /\ wrote'[k].type = "listening_start"]_vars

\* C34: the first frame written on the connection is the server hello, which
\* Start writes, and no later step writes a hello frame.
C34_HelloFirstAndOnce ==
    [][wrote' # <<>>
       => IF started
             THEN \A k \in DOMAIN wrote' : wrote'[k].type # "hello"
             ELSE wrote'[1].type = "hello"]_vars

\* C35: a default dispatch that the registry does not refuse invokes a
\* provider whose own Initialize has succeeded, whatever calls were made on
\* the registry before.
C35_DispatchesToInitialized ==
    outcome.op = "dispatch"
       => /\ outcome.llm.err = "none" => llmManager.defaultProvider \in outcome.llm.inited
          /\ outcome.tts.err = "none" => ttsManager.defaultProvider \in outcome.tts.inited

\* C36: the step of a round that appends its reply leaves, when the history
\* with the reply has more than 21 entries, the first entry followed by the 20
\* last entries of the history with the reply, each at its place; otherwise
\* it leaves the history with the reply.
C36_CompactionKeepsRecent ==
    [][\A r \in Rounds :
          rounds[r].pc = "append" /\ rounds'[r].pc # "append"
          => LET h == Append(chatHistory,
                             [role |-> "assistant", content |-> rounds[r].llmResponse])
             IN IF Len(h) > historyCap
                   THEN /\ Len(chatHistory') = historyKeep + 1
                        /\ chatHistory'[1] = chatHistory[1]
                        /\ \A k \in 1..historyKeep :
                              chatHistory'[1 + k] = h[Len(h) - historyKeep + k]
                   ELSE chatHistory' = h]_vars

\* two overlapping rounds have appended to a full history: the first
\* compaction dropped three entries and left a reply behind the system
\* prompt, the second dropped that reply; the two typed texts and the two
\* replies are the last four entries
C36_Witness ==
    /\ \A r \in Rounds : rounds[r].pc \notin {"none", "begin", "stream", "chat", "append"}
    /\ Len(chatHistory) = historyCap
    /\ chatHistory[2].role = "user"
    /\ chatHistory[historyCap - 3].role = "user"
    /\ chatHistory[historyCap - 2].role = "user"
    /\ chatHistory[historyCap - 1].role = "assistant"
    /\ chatHistory[historyCap].role = "assistant"

\* C37: whenever no round is in flight the entries behind the system prompt
\* are user and assistant messages in turn, a user message first.
C37_HistoryAlternates ==
    (\A r \in Rounds : ~InFlight(r))
       => \A k \in 2..Len(chatHistory) :
             chatHistory[k].role = IF k % 2 = 0 THEN "user" ELSE "assistant"

\* C38: an audio frame handled while the session is Thinking or Speaking
\* adds one to audioFrameCount and its size to totalAudioBytes and, on an open
\* connection, is the one frame written, with its size; the phase, the
\* history and the rounds are as they were.
C38_BusyAudioIsEchoed ==
    [][received' = "audio" /\ currentState \in {StateThinking, StateSpeaking}
       => LET n == totalAudioBytes' - totalAudioBytes
          IN /\ audioFrameCount' = audioFrameCount + 1
             /\ n \in FrameSizes
             /\ conn = "open" => wrote' = <<AudioChunk(0, n, 0)>>
             /\ currentState' = currentState
             /\ chatHistory' = chatHistory
             /\ rounds' = rounds]_vars

\* an audio frame has just been handled in a session that is Speaking, after
\* another one: both were counted and the round goes on
C38_Witness ==
    /\ received = "audio"
    /\ currentState = StateSpeaking
    /\ audioFrameCount = MaxEchoes
    /\ \E n \in FrameSizes : wrote = <<AudioChunk(0, n, 0)>>
    /\ \E r \in Rounds : InFlight(r)

\* C39: the goroutine that holds connectionsMutex is never inside a write to
\* a client connection: while the broadcast is inside WriteMessage the mutex
\* is free.
C39_TableLockNeverBlocks ==
    caller.broadcast = "writing" => connectionsMutex = "free"

\* the calls of a round on the generation and synthesis backends
BackendCall ==
    \E r \in Rounds : RoundStreamChat(r) \/ RoundChat(r) \/ RoundSynthesize(r)

\* the rounds inside a backend call
Calling == {r \in Rounds : rounds[r].pc \in {"stream", "chat", "tts"}}

\* C40: a backend call is a step of the round's own goroutine, made outside
\* every section of the session lock: it handles no frame and changes nothing
\* the lock protects; and while a round is inside a backend call the read
\* loop of the running process can handle an audio frame or a text frame.
C40_ReadLoopNeverWaits ==
    /\ [][BackendCall
          => /\ ~CriticalSection
             /\ received' = "none"
             /\ UNCHANGED <<session, chatHistory, ctlFrames>>]_vars
    /\ [](Calling # {} /\ started /\ readLoop = "reading" /\ ~crashed
            => /\ ENABLED (\E n \in FrameSizes : HandleBinaryMessage(n))
               /\ ENABLED HandleHello
               /\ ENABLED HandleListeningStart)

\* an audio frame has just been handled and echoed while a round is inside
\* its generation call
C40_Witness ==
    /\ received = "audio"
    /\ \E n \in FrameSizes : wrote = <<AudioChunk(0, n, 0)>>
    /\ \E r \in Rounds : rounds[r].pc = "chat"
    /\ currentState = StateThinking

====
